---- MODULE Spec2Model ----
(***************************************************************************)
(* pg_connlimit: per-role connection limits read from files.               *)
(*                                                                         *)
(* Two builds of the module are modelled:                                  *)
(*   "strtol"  src/pg_connlimit.c      open/read into a StringInfo, strtol *)
(*   "fscanf"  src/unnamed/part_000    AllocateFile, fscanf("%d")          *)
(* Strings of the program (role names, paths, file contents) are sequences *)
(* of one-character strings.  errno values are their names; errno == 0 is  *)
(* ENONE.                                                                  *)
(***************************************************************************)
EXTENDS Integers, Sequences, FiniteSets, TLC

(***************************************************************************)
(* Bounds of the model.                                                    *)
(***************************************************************************)
\* Backends (server processes) that can run connection attempts at once.
NumBackends == 2
\* Read calls of one enforce_limit call that the model follows.
MaxReads == 3

(***************************************************************************)
(* Characters and strings.                                                 *)
(***************************************************************************)
Digits == {"0", "1", "2", "3", "4", "5", "6", "7", "8", "9"}
Lower == {"a", "b", "c", "d", "e", "f", "g", "h", "i", "j", "k", "l", "m",
          "n", "o", "p", "q", "r", "s", "t", "u", "v", "w", "x", "y", "z"}
Upper == {"A", "B", "C", "D", "E", "F", "G", "H", "I", "J", "K", "L", "M",
          "N", "O", "P", "Q", "R", "S", "T", "U", "V", "W", "X", "Y", "Z"}
\* The vertical tab, byte 11 (written as the byte itself: TLA+ has no escape
\* for it).
VT == ""
\* isspace() in the C locale.
Space == {" ", "\t", "\n", VT, "\f", "\r"}

DigitVal(c) ==
    CASE c = "0" -> 0 [] c = "1" -> 1 [] c = "2" -> 2 [] c = "3" -> 3
      [] c = "4" -> 4 [] c = "5" -> 5 [] c = "6" -> 6 [] c = "7" -> 7
      [] c = "8" -> 8 [] c = "9" -> 9

\* The first index j >= i of s with s[j] outside S; Len(s) + 1 if none.
SkipWhile(s, i, S) ==
    LET J == {j \in i..(Len(s) + 1) : j = Len(s) + 1 \/ s[j] \notin S}
    IN  CHOOSE m \in J : \A k \in J : m <= k

\* errno values.
ENONE == "0"
EAGAIN == "EAGAIN"
EINTR == "EINTR"
EIO == "EIO"
ENOENT == "ENOENT"
EACCES == "EACCES"
ERANGE == "ERANGE"
EINVAL == "EINVAL"
ENOTTY == "ENOTTY"

STATUS_OK == "STATUS_OK"
STATUS_ERROR == "STATUS_ERROR"

(***************************************************************************)
(* Integer conversion.  A long does not fit the integers of the model: a   *)
(* C integer that may be a long is its decimal numeral [neg, mag], mag the *)
(* digits of the magnitude without leading zeros (none for 0).  An int is  *)
(* an integer of the model.                                                *)
(***************************************************************************)
INT_MAX == 2147483647
INT_MIN == -INT_MAX - 1
IntMaxDigits == <<"2", "1", "4", "7", "4", "8", "3", "6", "4", "7">>
IntMinDigits == <<"2", "1", "4", "7", "4", "8", "3", "6", "4", "8">>
LongMaxDigits == <<"9", "2", "2", "3", "3", "7", "2", "0", "3", "6", "8", "5",
                   "4", "7", "7", "5", "8", "0", "7">>
LongMinDigits == <<"9", "2", "2", "3", "3", "7", "2", "0", "3", "6", "8", "5",
                   "4", "7", "7", "5", "8", "0", "8">>

\* A digit string without its leading zeros.
Magnitude(ds) == SubSeq(ds, SkipWhile(ds, 1, {"0"}), Len(ds))

\* m > lim, for digit strings without leading zeros.
Exceeds(m, lim) ==
    \/ Len(m) > Len(lim)
    \/ /\ Len(m) = Len(lim)
       /\ \E i \in 1..Len(m) :
             /\ DigitVal(m[i]) > DigitVal(lim[i])
             /\ \A j \in 1..(i - 1) : m[j] = lim[j]

RECURSIVE Horner(_)
Horner(m) ==
    IF m = <<>> THEN 0
    ELSE 10 * Horner(SubSeq(m, 1, Len(m) - 1)) + DigitVal(m[Len(m)])

\* The numeral of the value with sign neg and magnitude m.
Num(neg, m) == [neg |-> neg /\ m # <<>>, mag |-> m]
LONG_MAX == Num(FALSE, LongMaxDigits)
LONG_MIN == Num(TRUE, LongMinDigits)

\* The digits of a natural number, and the numeral of an int.
RECURSIVE DigitsOf(_)
DigitsOf(n) ==
    IF n = 0 THEN <<>>
    ELSE DigitsOf(n \div 10)
         \o <<CHOOSE c \in Digits : DigitVal(c) = n % 10>>
NumOfInt(v) ==
    IF v = INT_MIN THEN Num(TRUE, IntMinDigits)
    ELSE IF v < 0 THEN Num(TRUE, DigitsOf(0 - v))
    ELSE Num(FALSE, DigitsOf(v))

\* The numeral n denotes a value of ]INT_MIN, INT_MAX], and that value.
FitsInt(n) == ~Exceeds(n.mag, IntMaxDigits)
IntOf(n) == IF n.neg THEN 0 - Horner(n.mag) ELSE Horner(n.mag)

\* c >= n and c > n for an int c and a numeral n, as after the usual
\* arithmetic conversions: a value outside int is above or below every int.
IntGE(c, n) == IF FitsInt(n) THEN c >= IntOf(n) ELSE n.neg
IntGT(c, n) ==
    IF FitsInt(n) THEN c > IntOf(n)
    ELSE n.neg /\ ~(c = INT_MIN /\ n.mag = IntMinDigits)

\* The subject sequence of strtol and of the %d directive: white space, an
\* optional sign, decimal digits.  atEnd: the input ended before a byte
\* other than white space.
Subject(s) ==
    LET i == SkipWhile(s, 1, Space)
        signed == i <= Len(s) /\ s[i] \in {"+", "-"}
        j == IF signed THEN i + 1 ELSE i
        k == SkipWhile(s, j, Digits)
    IN  [neg |-> signed /\ s[i] = "-",
         digits |-> SubSeq(s, j, k - 1),
         atEnd |-> i > Len(s)]

\* strtol(s, NULL, 10) with errno = e at the call: the numeral of the long
\* that is returned and the errno left behind.  Without digits no conversion
\* is performed: 0 is returned and errno is EINVAL only on a C library that
\* reports it (einval).  Outside the range of long the result is LONG_MAX
\* or LONG_MIN and errno is ERANGE.
strtol(s, e, einval) ==
    LET sub == Subject(s)
        m == Magnitude(sub.digits)
    IN  IF sub.digits = <<>>
        THEN [val |-> Num(FALSE, <<>>), errno |-> IF einval THEN EINVAL ELSE e]
        ELSE IF Exceeds(m, IF sub.neg THEN LongMinDigits ELSE LongMaxDigits)
        THEN [val |-> IF sub.neg THEN LONG_MIN ELSE LONG_MAX, errno |-> ERANGE]
        ELSE [val |-> Num(sub.neg, m), errno |-> e]

\* The digits m, with sign neg, denote a value outside the range of int.
OutsideInt(neg, m) == Exceeds(m, IF neg THEN IntMinDigits ELSE IntMaxDigits)

\* m modulo 2^32 as two 16-bit halves.
RECURSIVE Mod32(_)
Mod32(m) ==
    IF m = <<>> THEN [hi |-> 0, lo |-> 0]
    ELSE LET p == Mod32(SubSeq(m, 1, Len(m) - 1))
             l == p.lo * 10 + DigitVal(m[Len(m)])
         IN  [hi |-> (p.hi * 10 + l \div 65536) % 65536, lo |-> l % 65536]

\* The int made of the low 32 bits of a long: what the C library of the
\* build stores for a %d whose value is outside int (the long is LONG_MAX
\* or LONG_MIN when the digits are outside long).
Low32(neg, m) ==
    LET sat == Exceeds(m, IF neg THEN LongMinDigits ELSE LongMaxDigits)
        p == Mod32(m)
        u == IF sat THEN IF neg THEN [hi |-> 0, lo |-> 0]
                         ELSE [hi |-> 65535, lo |-> 65535]
             ELSE IF ~neg \/ (p.hi = 0 /\ p.lo = 0) THEN p
             ELSE [hi |-> (65535 - p.hi + (IF p.lo = 0 THEN 1 ELSE 0)) % 65536,
                   lo |-> (65536 - p.lo) % 65536]
    IN  IF u.hi >= 32768 THEN (u.hi - 65536) * 65536 + u.lo
        ELSE u.hi * 65536 + u.lo

\* The value of an int from its sign and digits.
IntValue(neg, m) ==
    IF neg /\ m = IntMinDigits THEN INT_MIN
    ELSE IF neg THEN 0 - Horner(m) ELSE Horner(m)

\* fscanf(fp, "%d", &limit) on the input s that stdio obtains.  A directive
\* that matches no digits fails (the call returns 0, or EOF when the input
\* ended before a byte other than white space) and stores nothing.  A value
\* outside the range of int is undefined behaviour of the conversion: ub is
\* the int that is stored then.
fscanf(s, ub) ==
    LET sub == Subject(s)
        m == Magnitude(sub.digits)
    IN  IF sub.digits = <<>>
        THEN [ret |-> IF sub.atEnd THEN -1 ELSE 0, val |-> 0]
        ELSE IF OutsideInt(sub.neg, m)
        THEN [ret |-> 1, val |-> ub]
        ELSE [ret |-> 1, val |-> IntValue(sub.neg, m)]

(***************************************************************************)
(* The identifier checks.                                                  *)
(***************************************************************************)
\* isalphanum() of src/pg_connlimit.c.
isalphanum(str) ==
    /\ str # <<>>
    /\ \A i \in 1..Len(str) : str[i] \in Digits \cup Upper \cup Lower

\* strspn(rolname, "abcdefghijklmnopqrstuvwxyz0123456789_"): the length of
\* the initial segment made of the accepted bytes.
strspn(str, accept) == SkipWhile(str, 1, accept) - 1

\* The name check of enforce_limit in each build: TRUE when the name may be
\* used to build the path.
NameAccepted(v, rolname) ==
    IF v = "strtol"
    THEN isalphanum(rolname)
    ELSE strspn(rolname, Lower \cup Digits \cup {"_"}) = Len(rolname)

(***************************************************************************)
(* The environment: configuration, catalog, files, other sessions.         *)
(***************************************************************************)
Variants == {"strtol", "fscanf"}

\* A char * that is NULL.
NULL == <<"NULL">>
\* The values of connlimit.directory: NULL (the boot value, nothing is
\* configured), "" and "d".
Directories == {NULL, <<>>, <<"d">>}

\* ClientAuthentication_hook before the module is loaded.
NoHook == "NULL"
OtherHook == "other_hook"

\* port->user_name of the attempts.
RoleNames == {<<"a", "b">>, <<"a", "_", "b">>, <<"A", "b">>, <<"a", ".", "b">>,
              <<>>, <<"z", "z">>}
\* The role names that get_role_oid finds.
pg_authid == RoleNames \ {<<>>, <<"z", "z">>}

get_role_oid(rolname) ==
    IF rolname \in pg_authid
    THEN [valid |-> TRUE, role |-> rolname]
    ELSE [valid |-> FALSE, role |-> <<>>]
OidIsValid(oid) == oid.valid

\* pathBuf.data after the three appends (src/pg_connlimit.c) or the "%s/%s"
\* format (src/unnamed/part_000).
PathOf(dir, rolname) == dir \o <<"/">> \o rolname

\* Where the operator keeps a limit file.
FilePaths == {PathOf(<<"d">>, <<"a", "b">>), PathOf(<<>>, <<"a", "b">>),
              PathOf(<<"d">>, <<"a", "_", "b">>)}

\* initStringInfo: the size of a fresh StringInfo buffer.
maxlen == 1024
\* sizeof '\0': a character constant has type int in C.
SizeofNulChar == 4

\* A file longer than the limit buffer: the byte c, then blanks.
LongFile(c) == [i \in 1..(maxlen + 1) |-> IF i = 1 THEN c ELSE " "]

\* 2^32 + 1: inside long, outside int.
TwoTo32Plus1 == <<"4", "2", "9", "4", "9", "6", "7", "2", "9", "7">>

FileContents ==
    {<<>>, <<"a", "b", "c">>, <<"0">>, <<"1", "0", "\n">>, <<VT, "-", "1">>,
     LongFile("5"), [i \in 1..20 |-> "9"], TwoTo32Plus1}

NoFile == [exists |-> FALSE, path |-> <<>>, content |-> <<>>]
Files == {NoFile} \cup [exists : {TRUE}, path : FilePaths, content : FileContents]

\* Live sessions of each role in backends that the model does not follow.
OtherCounts == {0, 9, 10}

\* errno at the call of the hook.
ErrnoIn == {ENONE, ENOTTY}
Statuses == {STATUS_OK, STATUS_ERROR}
\* What open may answer, and what read may answer besides a byte count.
OpenAnswers == {"ok", EAGAIN, ENOENT, EACCES}
ReadAnswers == {"ok", EAGAIN, EINTR, EIO}
\* What a read of stdio may answer.
ScanAnswers == {"ok", EIO}
\* Byte counts of a short read, besides all that was asked for.
ShortReads == {1, 2}
\* What a %d outside the range of int may store: what the C library of the
\* build stores, and the ends of int, 0 and -1 as other libraries do.
UBInts == {INT_MIN, -1, 0, INT_MAX}
UBStored(s) ==
    LET sub == Subject(s)
    IN  UBInts \cup {Low32(sub.neg, Magnitude(sub.digits))}

Backends == 1..NumBackends

VARIABLES variant, libcEinval, connlimitDirectory,
          prev_ClientAuthentication_hook, fs, otherBackends, be,
          raised    \* history: how far the operator is with raising the limit

vars == <<variant, libcEinval, connlimitDirectory,
          prev_ClientAuthentication_hook, fs, otherBackends, be, raised>>

env == <<variant, libcEinval, connlimitDirectory,
         prev_ClientAuthentication_hook, fs, otherBackends, raised>>

NoRes == [pathBuf |-> 0, limitBuf |-> 0, fd |-> 0]

\* A backend that runs no connection attempt.
Idle ==
    [pc |-> "idle", user_name |-> <<>>, status |-> STATUS_OK,
     errno |-> ENONE, errno_in |-> ENONE, save_errno |-> ENONE,
     roleid |-> get_role_oid(<<"z", "z">>),
     pathBuf |-> NULL, limitBuf |-> [data |-> <<>>, len |-> 0],
     remaining |-> 0, limit |-> Num(FALSE, <<>>), stream |-> <<>>,
     torn |-> FALSE,
     acquired |-> NoRes, released |-> NoRes,
     io |-> "none", reads |-> 0, spin |-> 0,
     req |-> [off |-> 0, count |-> 0], asserts |-> TRUE, seen |-> -1,
     count |-> -1,
     prevRuns |-> 0, outcome |-> "none"]

(***************************************************************************)
(* Helpers of the actions.                                                 *)
(***************************************************************************)
Min(a, b) == IF a < b THEN a ELSE b

Set(b, r) == be' = [be EXCEPT ![b] = r]

\* CountUserBackends(roleid): the backends whose session runs as the role.
\* A backend is counted once its session is set up, after the hook returned.
CountUserBackends(roleid) ==
    Cardinality({o \in Backends :
                    be[o].pc = "live" /\ get_role_oid(be[o].user_name) = roleid})
    + otherBackends

\* The statements of client_auth_hook, in the order of each build.
HookOrder(v) ==
    IF v = "strtol" THEN <<"enforce", "prev">> ELSE <<"prev", "enforce">>

\* Whether a statement of client_auth_hook runs: enforce_limit under
\* status == STATUS_OK, the previous hook when there is one.
StmtRuns_always(stmt, status, prev) ==
    IF stmt = "enforce" THEN TRUE ELSE prev # NoHook
StmtRuns(stmt, status, prev) ==
    IF stmt = "enforce" THEN status = STATUS_OK ELSE prev # NoHook

\* Where client_auth_hook continues once k of its statements are behind it.
HookFrom(v, k, status, prev) ==
    LET o == HookOrder(v)
    IN  IF k < 1 /\ StmtRuns(o[1], status, prev) THEN o[1]
        ELSE IF k < 2 /\ StmtRuns(o[2], status, prev) THEN o[2]
        ELSE "return"

\* Where client_auth_hook continues after the statement stmt.
HookAfter(v, stmt, status, prev) ==
    HookFrom(v, IF HookOrder(v)[1] = stmt THEN 1 ELSE 2, status, prev)

\* The GUC is not configured.
DirectoryUnset(dir) == dir = NULL

OverQuota_strict(count, limit) == IntGT(count, limit)
\* The test that rejects: CountUserBackends(roleid) >= limit.
OverQuota(count, limit) == IntGE(count, limit)

\* The loop condition of the open loop and of the read loop.
OpenAgain_anyerror(errno) == errno # ENONE
OpenAgain(errno) == errno = EAGAIN
ReadAgain_intr(errno, len, remaining) ==
    errno \in {EAGAIN, EINTR} /\ len < remaining
ReadAgain(errno, len, remaining) == errno = EAGAIN /\ len < remaining

OpenFailed_notfound(errno) == errno = ENOENT
\* The test after the open loop that gives up on the file.
OpenFailed(errno) == errno # ENONE

\* The test after the read loop that gives up on the file.
ReadFailed(errno, len) == errno # ENONE \/ len = maxlen

\* The resources that the label cleanup_opened releases in each build.
\* (FreeFile releases the FILE that AllocateFile returned.)
Release(res, names) ==
    [n \in DOMAIN res |-> IF n \in names THEN res[n] + 1 ELSE res[n]]
cleanup_opened_nofree(v) == {"fd"}
cleanup_opened(v) == IF v = "strtol" THEN {"limitBuf", "fd"} ELSE {"fd"}

Remaining_noroom == maxlen
\* remaining = limitBuf.maxlen - sizeof '\0'.
Remaining == maxlen - SizeofNulChar

\* AssertState(condition): the record notes an assertion that fails.
AssertState(r, condition) == [r EXCEPT !.asserts = r.asserts /\ condition]

RestoredErrno_kept(r) == r.errno
\* errno = save_errno, before the FATAL report and at the label cleanup.
RestoredErrno(r) == r.save_errno

\* enforce_limit returns from the label cleanup: pathBuf is freed and errno
\* restored.  opened says whether cleanup_opened ran first.  The freed
\* buffers are gone.
Cleanup(r, opened) ==
    [r EXCEPT !.released =
                 Release(r.released,
                         (IF opened THEN cleanup_opened(variant) ELSE {})
                         \cup {"pathBuf"}),
              !.pathBuf = NULL,
              !.limitBuf = [data |-> <<>>, len |-> 0],
              !.errno = RestoredErrno(r),
              !.spin = 0,
              !.stream = <<>>,
              !.outcome = "admit",
              !.pc = HookAfter(variant, "enforce", r.status,
                               prev_ClientAuthentication_hook)]

\* enforce_limit returns before it acquired anything.
EarlyReturn(r) ==
    [r EXCEPT !.outcome = "admit",
              !.pc = HookAfter(variant, "enforce", r.status,
                               prev_ClientAuthentication_hook)]

(***************************************************************************)
(* The actions of a backend.                                               *)
(***************************************************************************)
\* A connection attempt reaches ClientAuthentication, which calls the hook
\* with the port and the status of the authentication.
Attempt(b, name, status, e) ==
    /\ be[b].pc = "idle"
    /\ Set(b, [Idle EXCEPT !.user_name = name, !.status = status,
                           !.errno = e, !.errno_in = e,
                           !.pc = HookFrom(variant, 0, status,
                                           prev_ClientAuthentication_hook)])
    /\ UNCHANGED env

\* enforce_limit up to the open loop.
EnforceEntry(b) ==
    LET r == be[b]
        oid == get_role_oid(r.user_name)
    IN  /\ r.pc = "enforce"
        /\ IF DirectoryUnset(connlimitDirectory)
           THEN Set(b, EarlyReturn(r))
           ELSE IF ~OidIsValid(oid)
           THEN Set(b, EarlyReturn([r EXCEPT !.roleid = oid]))
           ELSE IF ~NameAccepted(variant, r.user_name)
           THEN Set(b, EarlyReturn([r EXCEPT !.roleid = oid]))
           ELSE Set(b, [r EXCEPT
                          !.roleid = oid,
                          !.pathBuf = PathOf(connlimitDirectory, r.user_name),
                          !.acquired = Release(r.acquired, {"pathBuf"}),
                          !.save_errno = r.errno,
                          !.errno = IF variant = "strtol" THEN r.errno ELSE ENONE,
                          !.pc = "open"])
        /\ UNCHANGED env

\* One open(pathBuf.data, O_RDONLY) of the open loop, or the AllocateFile
\* call; then the test of the result.
Open(b, answer) ==
    LET r == be[b]
        there == fs.exists /\ fs.path = r.pathBuf
        called == [r EXCEPT !.io = answer, !.spin = 1 - r.spin]
        opened == [called EXCEPT
                     !.errno = IF answer = "ok" THEN ENONE ELSE answer,
                     !.acquired = Release(r.acquired,
                                          IF answer = "ok" THEN {"fd"} ELSE {})]
    IN  /\ r.pc = "open"
        /\ answer = "ok" => there
        /\ answer = ENOENT => ~there
        /\ IF variant = "strtol"
           THEN IF OpenAgain(opened.errno)
                THEN Set(b, opened)
                ELSE IF OpenFailed(opened.errno)
                THEN Set(b, Cleanup(opened, FALSE))
                ELSE Set(b, [opened EXCEPT
                               !.acquired = Release(opened.acquired, {"limitBuf"}),
                               !.limitBuf = [data |-> <<>>, len |-> 0],
                               !.remaining = Remaining,
                               !.spin = 0,
                               !.pc = "read"])
           ELSE IF answer # "ok"
                THEN Set(b, Cleanup(opened, FALSE))
                ELSE Set(b, [opened EXCEPT !.spin = 0, !.pc = "scan"])
        /\ UNCHANGED env

\* What follows the read loop: the test of the result, the two assertions,
\* the terminator, strtol and the test of its result.
AfterReadLoop(q) ==
    IF ReadFailed(q.errno, q.limitBuf.len)
    THEN Cleanup(q, TRUE)
    ELSE LET r == AssertState(AssertState(q, q.limitBuf.len < maxlen),
                              q.errno = ENONE)
             conv == strtol(r.limitBuf.data, r.errno, libcEinval)
             parsed == [r EXCEPT !.limitBuf.len = r.limitBuf.len + 1,
                                 !.seen = r.limitBuf.len,
                                 !.limit = conv.val,
                                 !.errno = conv.errno]
         IN  IF conv.errno # ENONE
             THEN Cleanup(parsed, TRUE)
             ELSE [parsed EXCEPT !.pc = "compare"]

\* One read(fd, &limitBuf.data[limitBuf.len], remaining - limitBuf.len) of
\* the read loop, and what follows the loop when this read ends it.  A read
\* that succeeds returns n bytes of the file, from the offset of the
\* descriptor on: all that is left and fits (short = 0), or short bytes.
Read(b, answer, short) ==
    LET r == be[b]
        asked == r.remaining - r.limitBuf.len
        left == Len(fs.content) - r.limitBuf.len
        n == IF short = 0 THEN Min(asked, left) ELSE short
        called == [r EXCEPT !.reads = Min(r.reads + 1, MaxReads), !.io = answer,
                            !.req = [off |-> r.limitBuf.len, count |-> asked],
                            !.spin = 1 - r.spin]
        got == [called EXCEPT
                  !.errno = ENONE,
                  !.limitBuf.data =
                      r.limitBuf.data
                      \o SubSeq(fs.content, r.limitBuf.len + 1, r.limitBuf.len + n),
                  !.limitBuf.len = r.limitBuf.len + n]
        failed == [called EXCEPT !.errno = answer]
    IN  /\ r.pc = "read"
        /\ short <= Min(asked, left)
        /\ answer # "ok" => short = 0
        /\ IF answer = "ok"
           THEN Set(b, IF ReadAgain(got.errno, got.limitBuf.len, r.remaining)
                       THEN got ELSE AfterReadLoop([got EXCEPT !.spin = 0]))
           ELSE Set(b, IF ReadAgain(failed.errno, failed.limitBuf.len, r.remaining)
                       THEN failed ELSE AfterReadLoop([failed EXCEPT !.spin = 0]))
        /\ UNCHANGED env

\* d is the beginning of c.
Prefix(d, c) == Len(d) <= Len(c) /\ \A i \in 1..Len(d) : d[i] = c[i]

\* The %d directive has what it needs of the input d: a byte that is not
\* part of the number was read.
NumberEnded(d) ==
    LET i == SkipWhile(d, 1, Space)
        j == IF i <= Len(d) /\ d[i] \in {"+", "-"} THEN i + 1 ELSE i
    IN  SkipWhile(d, j, Digits) <= Len(d)

\* fscanf(fp, "%d", &limit), one read of stdio at a time, and the test of
\* its result when this read ends the call.  A read that succeeds returns
\* n bytes of the file as it is now, from the offset of the stream on: all
\* that is left (short = 0), or short bytes.  The directive is done when a
\* byte behind the number was read, at end-of-file (n = 0) and when a read
\* fails.
Scan(b, answer, short) ==
    LET r == be[b]
        off == Len(r.stream)
        left == IF Len(fs.content) > off THEN Len(fs.content) - off ELSE 0
        n == IF answer # "ok" THEN 0 ELSE IF short = 0 THEN left ELSE short
        d == r.stream \o SubSeq(fs.content, off + 1, off + n)
        called == [r EXCEPT !.io = answer, !.stream = d]
    IN  /\ r.pc = "scan"
        /\ short <= left
        /\ answer # "ok" => short = 0
        /\ IF n > 0 /\ ~NumberEnded(d)
           THEN Set(b, called)
           ELSE \E ub \in UBStored(d) :
                   LET conv == fscanf(d, ub)
                       done == [called EXCEPT !.seen = Len(d), !.stream = <<>>,
                                              !.torn = ~Prefix(d, fs.content)]
                   IN  Set(b, IF conv.ret # 1
                              THEN Cleanup(done, TRUE)
                              ELSE [done EXCEPT !.limit = NumOfInt(conv.val),
                                                !.pc = "compare"])
        /\ UNCHANGED env

\* The byte counts of a read of stdio that are followed: all that is left,
\* and one byte for the first read of the stream.
ScanShorts(b) == IF be[b].stream = <<>> THEN {0, 1} ELSE {0}

\* The quota test, and what follows it: the FATAL report, or the labels
\* cleanup_opened and cleanup.
Compare(b) ==
    LET r == be[b]
        n == CountUserBackends(r.roleid)
    IN  /\ r.pc = "compare"
        /\ Set(b, IF OverQuota(n, r.limit)
                  THEN [r EXCEPT !.count = n, !.errno = RestoredErrno(r),
                                 !.outcome = "reject", !.pc = "fatal"]
                  ELSE Cleanup([r EXCEPT !.count = n], TRUE))
        /\ UNCHANGED env

\* prev_ClientAuthentication_hook(port, status).
PrevHook(b) ==
    LET r == be[b]
    IN  /\ r.pc = "prev"
        /\ Set(b, [r EXCEPT !.prevRuns = r.prevRuns + 1,
                            !.pc = HookAfter(variant, "prev", r.status,
                                             prev_ClientAuthentication_hook)])
        /\ UNCHANGED env

\* The hook returned with an authenticated attempt of a known role: the
\* session is set up and the backend counts for its role from now on.
BecomeLive(b) ==
    /\ be[b].pc = "return"
    /\ be[b].status = STATUS_OK
    /\ OidIsValid(get_role_oid(be[b].user_name))
    /\ Set(b, [Idle EXCEPT !.user_name = be[b].user_name, !.pc = "live"])
    /\ UNCHANGED env

\* The backend exits: after the FATAL report, after a failed authentication,
\* or when the client disconnects.
Exit(b) ==
    /\ be[b].pc \in {"return", "fatal", "live"}
    /\ Set(b, Idle)
    /\ UNCHANGED env

(***************************************************************************)
(* The actions of the environment.                                         *)
(***************************************************************************)
\* The configuration, the removal of the file and the other sessions are
\* followed between the calls of the hook: a call looks at the directory
\* once, at its entry, and at the count once, at the quota test, and a
\* file that is removed stays readable through the descriptor.  The limit
\* file is rewritten in place at any moment up to the last read of a call.
Quiet == \A b \in Backends : be[b].pc \in {"idle", "live"}

\* SIGHUP: connlimit.directory is read again from the configuration.
ReloadConf(dir) ==
    /\ Quiet
    /\ connlimitDirectory # dir
    /\ connlimitDirectory' = dir
    /\ UNCHANGED <<variant, libcEinval, prev_ClientAuthentication_hook, fs,
                   otherBackends, be, raised>>

\* The operator writes the limit file (one file at a time is followed).
WriteLimit(path, content) ==
    /\ \A b \in Backends : be[b].pc \in {"idle", "live", "open", "read", "scan"}
    /\ fs.exists => fs.path = path
    /\ fs' = [exists |-> TRUE, path |-> path, content |-> content]
    /\ fs' # fs
    /\ UNCHANGED <<variant, libcEinval, connlimitDirectory,
                   prev_ClientAuthentication_hook, otherBackends, be, raised>>

\* The operator removes the limit file.
RemoveLimit ==
    /\ Quiet
    /\ fs.exists
    /\ fs' = NoFile
    /\ UNCHANGED <<variant, libcEinval, connlimitDirectory,
                   prev_ClientAuthentication_hook, otherBackends, be, raised>>

\* Sessions of the backends that the model does not follow come and go.
OthersChange(n) ==
    /\ Quiet
    /\ otherBackends # n
    /\ otherBackends' = n
    /\ UNCHANGED <<variant, libcEinval, connlimitDirectory,
                   prev_ClientAuthentication_hook, fs, be, raised>>

(***************************************************************************)
(* The state after _PG_init: the GUC holds its boot value NULL, the hook    *)
(* that was installed before is saved, no backend runs an attempt.         *)
(***************************************************************************)
Init ==
    /\ variant \in Variants
    /\ libcEinval \in (IF variant = "strtol" THEN BOOLEAN ELSE {FALSE})
    /\ connlimitDirectory = NULL
    /\ prev_ClientAuthentication_hook \in {NoHook, OtherHook}
    /\ fs = NoFile
    /\ otherBackends = 0
    /\ be = [b \in Backends |-> Idle]
    /\ raised = "no"

\* One backend at a time runs an attempt; every answer of the system calls.
Next ==
    \/ \E name \in RoleNames, status \in Statuses, e \in ErrnoIn :
          Attempt(1, name, status, e)
    \/ EnforceEntry(1)
    \/ \E answer \in OpenAnswers : Open(1, answer)
    \/ \E answer \in ReadAnswers, short \in {0} \cup ShortReads :
          Read(1, answer, short)
    \/ \E answer \in ScanAnswers, short \in ScanShorts(1) :
          Scan(1, answer, short)
    \/ Compare(1)
    \/ PrevHook(1)
    \/ BecomeLive(1)
    \/ Exit(1)
    \/ \E dir \in Directories : ReloadConf(dir)
    \/ \E path \in FilePaths, content \in FileContents : WriteLimit(path, content)
    \/ RemoveLimit
    \/ \E n \in OtherCounts : OthersChange(n)

Spec == Init /\ [][Next]_vars

(***************************************************************************)
(* Concurrent attempts of one role against one limit file that stays as it *)
(* is: every backend runs attempts, the sessions that were live at the     *)
(* start only go away.                                                     *)
(***************************************************************************)
TheRole == <<"a", "b">>
\* The limit files of the concurrent runs: the limits 1 and 2.
ConcContents == {<<"0", "1">>, <<"2">>}

\* A session that was live at the start ends.
OtherExit ==
    /\ otherBackends > 0
    /\ otherBackends' = otherBackends - 1
    /\ UNCHANGED <<variant, libcEinval, connlimitDirectory,
                   prev_ClientAuthentication_hook, fs, be, raised>>

\* The file is there and can be read: open answers EAGAIN at worst, which
\* only the open loop of the strtol build retries.
ConcOpenAnswers == IF variant = "strtol" THEN {"ok", EAGAIN} ELSE {"ok"}

ConcInit ==
    /\ variant \in Variants
    /\ libcEinval = FALSE
    /\ connlimitDirectory = <<"d">>
    /\ prev_ClientAuthentication_hook \in {NoHook, OtherHook}
    /\ fs \in [exists : {TRUE}, path : {PathOf(<<"d">>, TheRole)},
                content : ConcContents]
    /\ otherBackends \in 0..Horner(fs.content)
    /\ be = [b \in Backends |-> Idle]
    /\ raised = "no"

ConcNext ==
    \/ \E b \in Backends : Attempt(b, TheRole, STATUS_OK, ENONE)
    \/ \E b \in Backends : EnforceEntry(b)
    \/ \E b \in Backends, answer \in ConcOpenAnswers : Open(b, answer)
    \/ \E b \in Backends, answer \in {"ok", EAGAIN}, short \in {0, 1} :
          Read(b, answer, short)
    \/ \E b \in Backends : Scan(b, "ok", 0)
    \/ \E b \in Backends : Compare(b)
    \/ \E b \in Backends : PrevHook(b)
    \/ \E b \in Backends : BecomeLive(b)
    \/ \E b \in Backends : Exit(b)
    \/ OtherExit

ConcSpec == ConcInit /\ [][ConcNext]_vars

(***************************************************************************)
(* The calls of the hook for one role with the directory configured, under *)
(* every answer of the system calls, while the operator rewrites the limit *)
(* file (the truncation and the write of a redirection are two steps).  A  *)
(* backend keeps running: a call of the hook that can take a step takes    *)
(* one, whatever the system calls answer.                                  *)
(***************************************************************************)
\* The contents of the limit file of these runs: the limits 0 and 10, and
\* the empty file that "echo 10 > file" leaves between its truncation and
\* its write.
CallContents == {<<>>, <<"0">>, <<"1", "0", "\n">>}

CallInit ==
    /\ variant \in Variants
    /\ libcEinval \in (IF variant = "strtol" THEN BOOLEAN ELSE {FALSE})
    /\ connlimitDirectory = <<"d">>
    /\ prev_ClientAuthentication_hook \in {NoHook, OtherHook}
    /\ fs \in [exists : {TRUE}, path : {PathOf(<<"d">>, TheRole)},
                content : CallContents]
    /\ otherBackends \in OtherCounts
    /\ be = [b \in Backends |-> Idle]
    /\ raised = "no"

CallNext ==
    \/ \E e \in ErrnoIn : Attempt(1, TheRole, STATUS_OK, e)
    \/ EnforceEntry(1)
    \/ \E answer \in OpenAnswers : Open(1, answer)
    \/ \E answer \in ReadAnswers, short \in {0} \cup ShortReads :
          Read(1, answer, short)
    \/ \E answer \in ScanAnswers, short \in ScanShorts(1) :
          Scan(1, answer, short)
    \/ Compare(1)
    \/ PrevHook(1)
    \/ BecomeLive(1)
    \/ Exit(1)
    \/ \E content \in CallContents :
          WriteLimit(PathOf(<<"d">>, TheRole), content)
    \/ \E n \in OtherCounts : OthersChange(n)

BackendStep(b) ==
    \/ EnforceEntry(b)
    \/ \E answer \in OpenAnswers : Open(b, answer)
    \/ \E answer \in ReadAnswers, short \in {0} \cup ShortReads :
          Read(b, answer, short)
    \/ \E answer \in ScanAnswers, short \in ScanShorts(b) :
          Scan(b, answer, short)
    \/ Compare(b)
    \/ PrevHook(b)

SchedSpec == CallInit /\ [][CallNext]_vars /\ WF_vars(BackendStep(1))

\* open, and read, answer EAGAIN only finitely many times in a row: an
\* answer other than EAGAIN comes in the end.
OpenAnswered(b) == \E answer \in OpenAnswers \ {EAGAIN} : Open(b, answer)
ReadAnswered(b) ==
    \E answer \in ReadAnswers \ {EAGAIN}, short \in {0} \cup ShortReads :
       Read(b, answer, short)

FairSpec == SchedSpec /\ WF_vars(OpenAnswered(1)) /\ WF_vars(ReadAnswered(1))

(***************************************************************************)
(* The operator raises a limit after a rejection: the attempts of one role *)
(* against a limit file that holds 0 at the start, and that the operator    *)
(* rewrites once an attempt has been rejected, with echo N > file: the     *)
(* shell truncates the file, then echo writes, and attempts run in         *)
(* between.  Nothing is reloaded or restarted.                             *)
(***************************************************************************)
\* The contents the operator writes: the limits 10 and 1.
RaiseContents == {<<"1", "0", "\n">>, <<"1">>}

\* The integer a limit file denotes, as strtol converts it: an optional
\* sign and decimal digits, LONG_MAX or LONG_MIN outside the range of long.
DenotedLimit(content) == strtol(content, ENONE, FALSE).val

\* The steps of the operator so far: none, a rejection seen, the file
\* truncated, the new limit written.
RaisePhases == {"no", "rejected", "truncated", "written"}

\* The attempt of backend b ended in FATAL: the operator sees the
\* too-many-connections report of the role.
SeeRejection(b) ==
    /\ be[b].pc = "fatal"
    /\ raised = "no"
    /\ raised' = "rejected"
    /\ UNCHANGED <<variant, libcEinval, connlimitDirectory,
                   prev_ClientAuthentication_hook, fs, otherBackends, be>>

\* After a rejection the operator rewrites the limit file: the redirection
\* of the shell truncates it, between two calls or during a call, at any
\* moment up to the last read of the call.
TruncateLimit ==
    /\ raised \in {"rejected", "written"}
    /\ \A b \in Backends : be[b].pc \in {"idle", "live", "open", "read", "scan"}
    /\ fs.exists /\ fs.content # <<>>
    /\ fs' = [fs EXCEPT !.content = <<>>]
    /\ raised' = "truncated"
    /\ UNCHANGED <<variant, libcEinval, connlimitDirectory,
                   prev_ClientAuthentication_hook, otherBackends, be>>

\* echo writes into the truncated file an integer greater than the count
\* of the role's live sessions, at any moment up to the last read of a call.
RaiseLimit(content) ==
    /\ raised = "truncated"
    /\ \A b \in Backends : be[b].pc \in {"idle", "live", "open", "read", "scan"}
    /\ fs.exists /\ fs.content = <<>>
    /\ ~IntGE(CountUserBackends(get_role_oid(TheRole)), DenotedLimit(content))
    /\ fs' = [fs EXCEPT !.content = content]
    /\ raised' = "written"
    /\ UNCHANGED <<variant, libcEinval, connlimitDirectory,
                   prev_ClientAuthentication_hook, otherBackends, be>>

RaiseInit ==
    /\ variant \in Variants
    /\ libcEinval = FALSE
    /\ connlimitDirectory = <<"d">>
    /\ prev_ClientAuthentication_hook \in {NoHook, OtherHook}
    /\ fs = [exists |-> TRUE, path |-> PathOf(<<"d">>, TheRole),
             content |-> <<"0">>]
    /\ otherBackends \in OtherCounts
    /\ be = [b \in Backends |-> Idle]
    /\ raised = "no"

RaiseNext ==
    \/ \E e \in ErrnoIn : Attempt(1, TheRole, STATUS_OK, e)
    \/ EnforceEntry(1)
    \/ \E answer \in OpenAnswers : Open(1, answer)
    \/ \E answer \in ReadAnswers, short \in {0} \cup ShortReads :
          Read(1, answer, short)
    \/ \E answer \in ScanAnswers, short \in ScanShorts(1) :
          Scan(1, answer, short)
    \/ Compare(1)
    \/ PrevHook(1)
    \/ BecomeLive(1)
    \/ Exit(1)
    \/ SeeRejection(1)
    \/ TruncateLimit
    \/ \E content \in RaiseContents : RaiseLimit(content)
    \/ \E n \in OtherCounts : OthersChange(n)

RaiseSpec == RaiseInit /\ [][RaiseNext]_vars

(***************************************************************************)
(* Properties.                                                             *)
(***************************************************************************)
\* enforce_limit has ended: it returned ("admit") or raised FATAL ("reject").
Finished(r) == r.outcome # "none"
\* enforce_limit has been called.
Entered(r) == Finished(r) \/ r.pc \in {"open", "read", "scan", "compare"}
\* The name is not empty and made of ASCII letters and digits only.
OnlyAlnum(name) ==
    /\ Len(name) > 0
    /\ \A i \in 1..Len(name) : name[i] \in Lower \cup Upper \cup Digits
\* The call could not open the file.
OpenError(r) == r.io # "none" /\ r.acquired.fd = 0
\* A read() of the call failed with an errno other than EAGAIN.
ReadError(r) ==
    variant = "strtol" /\ r.acquired.fd = 1 /\ r.io \notin {"none", "ok", EAGAIN}

\* c < n for a count c >= 0 and a numeral n: n is positive and its digits
\* are more, or the same number and greater at the first place they differ.
Below(c, n) == ~n.neg /\ Exceeds(n.mag, DigitsOf(c))

\* C1: once the quota test is reached with count C and limit L, the attempt
\* is rejected with FATAL iff C >= L and admitted iff C < L, for every
\* signed L.
C1_QuotaDecision ==
    \A b \in Backends :
        LET r == be[b]
        IN  r.count # -1 =>
               /\ (r.outcome = "reject") <=> ~Below(r.count, r.limit)
               /\ (r.outcome = "admit") <=> Below(r.count, r.limit)
               /\ (r.pc = "fatal") <=> (r.outcome = "reject")

\* Limit 10 rejects at count 10.
C1_Witness ==
    \E b \in Backends :
        /\ be[b].limit = Num(FALSE, <<"1", "0">>)
        /\ be[b].count = 10 /\ be[b].pc = "fatal"

\* C2: a file that cannot be opened, or a read() that fails with an errno
\* other than EAGAIN, admits: the call returns, the live count is never
\* queried, FATAL is not raised.
C2_UnreadableAdmits ==
    \A b \in Backends :
        LET r == be[b]
        IN  Finished(r) /\ (OpenError(r) \/ ReadError(r)) =>
               r.outcome = "admit" /\ r.count = -1 /\ r.pc # "fatal"

\* A read that failed with EINTR on a file holding "0", with sessions live.
C2_Witness ==
    \E b \in Backends :
        /\ ReadError(be[b]) /\ be[b].io = EINTR
        /\ fs.content = <<"0">> /\ otherBackends = 10
        /\ be[b].outcome = "admit"

\* C3: a limit file without leading digits never rejects.
C3_NoDigitsAdmits ==
    \A b \in Backends :
        LET r == be[b]
        IN  /\ Finished(r)
            /\ r.acquired.fd = 1 /\ ~r.torn
            /\ Subject(fs.content).digits = <<>>
            => r.outcome = "admit"

\* C4: with connlimit.directory unset or empty the call returns
\* without a path, without an open and without the live count, whatever
\* files exist.
C4_UnsetDirectoryAdmits ==
    \A b \in Backends :
        LET r == be[b]
        IN  Entered(r) /\ connlimitDirectory \in {NULL, <<>>} =>
               /\ r.acquired.pathBuf = 0
               /\ r.io = "none"
               /\ r.count = -1
               /\ r.outcome # "reject"

\* C5: in both builds, a name that is empty or has a byte outside
\* [A-Za-z0-9] fails the check (no path, no open, admit), and every other
\* name passes it (the path is built).
C5_NameCheck ==
    \A b \in Backends :
        LET r == be[b]
        IN  Entered(r) /\ OidIsValid(r.roleid) =>
               IF OnlyAlnum(r.user_name)
               THEN r.acquired.pathBuf = 1
               ELSE /\ r.acquired.pathBuf = 0
                    /\ r.io = "none"
                    /\ r.outcome # "reject"

\* The live sessions of the role of the concurrent runs.
LiveOfTheRole == CountUserBackends(get_role_oid(TheRole))
\* The limit in the file of the concurrent runs.
TheLimit == Horner(fs.content)

\* C6 (as claimed): the live sessions of the role never exceed the limit.
C6_NeverExceedsLimit == LiveOfTheRole <= TheLimit

\* C6 (amended): with NumBackends backends running attempts at once, the
\* live sessions of the role never exceed the limit by more than
\* NumBackends - 1.
C6_ExceedsByOverlap == LiveOfTheRole <= TheLimit + NumBackends - 1

\* Two attempts that overlapped are both live: one session over the limit.
C6_Witness ==
    /\ LiveOfTheRole > TheLimit
    /\ \A b \in Backends : be[b].pc = "live"

\* C7: a file longer than the read buffer admits, and its truncated prefix
\* is never parsed nor compared.
C7_TooLongAdmits ==
    \A b \in Backends :
        LET r == be[b]
        IN  /\ variant = "strtol"
            /\ Finished(r)
            /\ r.acquired.fd = 1
            /\ r.io = "ok"
            /\ Len(fs.content) >= maxlen
            => r.outcome = "admit" /\ r.count = -1

\* C8: when client_auth_hook ends and a previous hook exists, the previous
\* hook has run exactly once, also when enforce_limit rejected.
C8_PrevHookOnce ==
    \A b \in Backends :
        LET r == be[b]
        IN  r.pc \in {"return", "fatal"}
            /\ prev_ClientAuthentication_hook # NoHook
            => r.prevRuns = 1

\* C9: two checks of the same role with the same directory, the same file
\* content and the same live count end with the same decision.
C9_SameInputsSameDecision ==
    \A a, b \in Backends :
        /\ Finished(be[a]) /\ Finished(be[b])
        /\ be[a].user_name = be[b].user_name
        /\ be[a].count # -1
        /\ be[a].count = be[b].count
        => be[a].outcome = be[b].outcome

\* The resources of a call in the strtol build and in the fscanf build.
AllRes(v) ==
    IF v = "strtol" THEN [pathBuf |-> 1, limitBuf |-> 1, fd |-> 1]
    ELSE [pathBuf |-> 1, limitBuf |-> 0, fd |-> 1]

\* C10 (as claimed): on every exit of enforce_limit, rejection included,
\* all that the call acquired has been released exactly once.
C10_ReleasedOnEveryExit ==
    \A b \in Backends :
        Finished(be[b]) => be[b].released = be[b].acquired

\* C10 (amended): nothing is released that was not acquired, nothing twice;
\* when enforce_limit returns, all that the call acquired has been released
\* exactly once; when it rejects, FATAL is raised with the handle and the
\* buffers of the call still held.
C10_ReleasedOnReturn ==
    \A b \in Backends :
        LET r == be[b]
        IN  /\ \A n \in DOMAIN r.acquired :
                  r.released[n] <= r.acquired[n] /\ r.acquired[n] <= 1
            /\ r.outcome = "admit" => r.released = r.acquired
            /\ r.outcome = "reject" =>
                  r.released = NoRes /\ r.acquired = AllRes(variant)

\* A call that returned after the quota test, with all three resources
\* acquired and released.
C10_Witness ==
    \E b \in Backends :
        /\ be[b].outcome = "admit" /\ be[b].count # -1
        /\ be[b].acquired = AllRes("strtol")
        /\ be[b].released = be[b].acquired
\* The call opened the limit file and its reads met no error.
ReadOk(r) == r.acquired.fd = 1 /\ r.io = "ok"

\* C11: after an attempt of a role was rejected and the operator replaced
\* the content of the limit file by an integer greater than the count of the
\* role's live sessions, an attempt of the role that opens the file and
\* reads the new content without error (no mixture of two contents) is
\* admitted (no restart, no reload in between).
C11_RaisedLimitAdmits ==
    \A b \in Backends :
        LET r == be[b]
        IN  /\ raised = "written"
            /\ Finished(r)
            /\ ReadOk(r) /\ ~r.torn
            /\ Subject(fs.content).digits # <<>>
            /\ Below(CountUserBackends(r.roleid), DenotedLimit(fs.content))
            => r.outcome = "admit"

\* C12: when the read loop ends in success, the bytes handed to strtol are
\* the complete content of the limit file, whatever EAGAIN answers and short
\* reads came before: a truncated value is never parsed.
C12_CompleteContentParsed ==
    \A b \in Backends :
        LET r == be[b]
        IN  variant = "strtol" /\ r.seen # -1 =>
               /\ r.seen = Len(fs.content)
               /\ r.pc = "compare" => r.limitBuf.data = fs.content

\* C13 as claimed: the read loop ends, whatever the reads answer (after a
\* number of read calls that depends on the buffer size alone).
C13_ReadLoopTerminates ==
    \A b \in Backends : (be[b].pc = "read") ~> (be[b].pc # "read")

\* C13: the read loop ends at the first read that does not answer EAGAIN:
\* while the loop runs, every read of the call answered EAGAIN and the
\* buffer is empty.  The number of read calls is the number of EAGAIN
\* answers in a row plus one, and no size of the buffer bounds it.
C13_LoopEndsAtFirstAnswer ==
    \A b \in Backends :
        LET r == be[b]
        IN  r.pc = "read" =>
               /\ r.limitBuf.len = 0 /\ r.limitBuf.data = <<>>
               /\ r.reads > 0 => r.io = EAGAIN /\ r.errno = EAGAIN
               /\ r.reads = 0 => r.io = "ok" /\ r.errno = ENONE

\* The loop has made MaxReads read calls and goes on.
C13_Witness ==
    \E b \in Backends :
        /\ be[b].pc = "read" /\ be[b].reads = MaxReads
        /\ be[b].io = EAGAIN /\ be[b].limitBuf.len = 0

\* A call of enforce_limit is due or under way.
InCall(r) == r.pc \in {"enforce", "open", "read", "scan", "compare"}

\* C14: when open and read each answer EAGAIN only finitely many times in a
\* row, every call of enforce_limit finishes, with exactly one outcome:
\* it returns (admit) or it raises FATAL (reject), never both.
C14_CallFinishesOnce ==
    /\ \A b \in Backends : InCall(be[b]) ~> Finished(be[b])
    /\ [][\A b \in Backends :
             /\ Finished(be[b]) /\ Finished(be'[b])
                => be'[b].outcome = be[b].outcome
             /\ Finished(be'[b]) =>
                   /\ be'[b].outcome \in {"admit", "reject"}
                   /\ (be'[b].outcome = "reject") <=> (be'[b].pc = "fatal")]_vars

\* A call finished after read had answered EAGAIN MaxReads - 1 times or more.
C14_Witness ==
    \E b \in Backends :
        /\ Finished(be[b]) /\ be[b].acquired.fd = 1
        /\ be[b].reads = MaxReads /\ variant = "strtol"

\* C15: every read of the read loop asks for bytes inside the limit buffer
\* (offset plus count at most maxlen minus the room for the terminator),
\* len stays below maxlen, the terminator is written at an index below
\* maxlen, and AssertState(limitBuf.len < limitBuf.maxlen) and
\* AssertState(errno == 0) hold when they are reached.
C15_ReadsInsideBuffer ==
    \A b \in Backends :
        LET r == be[b]
        IN  /\ r.req.off >= 0 /\ r.req.count >= 0
            /\ r.req.off + r.req.count <= maxlen - 1
            /\ r.limitBuf.len < maxlen
            /\ Len(r.limitBuf.data) <= r.limitBuf.len
            /\ r.seen # -1 /\ variant = "strtol" => r.seen < maxlen
            /\ r.asserts

\* The longest read: a file longer than the buffer fills it up to remaining
\* and the terminator is written behind.
C15_Witness ==
    \E b \in Backends :
        /\ be[b].pc = "compare" /\ be[b].seen = maxlen - SizeofNulChar
        /\ be[b].limitBuf.len = be[b].seen + 1
        /\ be[b].req = [off |-> 0, count |-> maxlen - SizeofNulChar]

\* The call has saved errno: it got as far as the open.
Saved(r) == r.acquired.pathBuf = 1

\* C16: errno is left as the call found it: when enforce_limit has returned
\* after saving errno, and when the FATAL report of a rejection is raised,
\* errno has the value that was saved, which is the value at the entry.
C16_ErrnoRestored ==
    \A b \in Backends :
        LET r == be[b]
        IN  /\ Finished(r) /\ Saved(r) =>
                r.errno = r.save_errno /\ r.save_errno = r.errno_in
            /\ Finished(r) => r.errno = r.errno_in

\* A read failed with EIO in a call that was entered with errno ENOTTY, and
\* a rejection in such a call.
C16_Witness ==
    \E b \in Backends :
        /\ Finished(be[b]) /\ Saved(be[b])
        /\ be[b].errno_in = ENOTTY /\ be[b].errno = ENOTTY
        /\ be[b].io = EIO \/ be[b].outcome = "reject"

\* The digits of the content denote a value outside the range of the type
\* of limit: long in the strtol build, int in the fscanf build.
OutOfRange(v, content) ==
    LET sub == Subject(content)
        m == Magnitude(sub.digits)
    IN  /\ sub.digits # <<>>
        /\ IF v = "strtol"
           THEN Exceeds(m, IF sub.neg THEN LongMinDigits ELSE LongMaxDigits)
           ELSE OutsideInt(sub.neg, m)

\* C17: when the digits of the limit file denote a value outside the range
\* of the type of limit, the conversion fails and the attempt is admitted:
\* no wrapped or clamped value is compared with the count.
C17_OverflowAdmits ==
    \A b \in Backends :
        LET r == be[b]
        IN  /\ Finished(r) /\ ReadOk(r)
            /\ r.seen = Len(fs.content) /\ ~r.torn
            /\ OutOfRange(variant, fs.content)
            => r.outcome = "admit" /\ r.count = -1

\* C18: when client_auth_hook is called with a status other than STATUS_OK,
\* enforce_limit is not run: no file is opened, the count is not queried
\* and the attempt is not rejected by the module, in both builds.
C18_NotOkSkipsEnforce ==
    \A b \in Backends :
        LET r == be[b]
        IN  r.pc \notin {"idle", "live"} /\ r.status # STATUS_OK =>
               /\ r.pc \in {"prev", "return"}
               /\ ~Entered(r)
               /\ r.io = "none" /\ r.acquired = NoRes
               /\ r.count = -1 /\ r.seen = -1
               /\ r.outcome = "none"

\* The hook has returned from a call with STATUS_ERROR, after the previous
\* hook ran.
C18_Witness ==
    \E b \in Backends :
        /\ be[b].status = STATUS_ERROR /\ be[b].pc = "return"
        /\ be[b].prevRuns = 1
        /\ connlimitDirectory = <<"d">> /\ fs.exists

====
